---- MODULE Spec2Model ----
(***************************************************************************)
(* Incident lifecycle engine of raisedash-kpi-bot (src/database.py).       *)
(*                                                                         *)
(* The store is the five incident tables of the SQLite schema.  Every      *)
(* public mutation of Database runs under self._lock inside one            *)
(* get_connection() transaction, so one action is one whole call: the     *)
(* SELECTs, the precondition checks, the writes, and the commit or the     *)
(* rollback that get_connection() performs when the body raises.           *)
(***************************************************************************)
EXTENDS Integers, Sequences, FiniteSets, TLC

VARIABLES incidents,     \* incidents table: incident_id (its digits) -> row
          claims,        \* incident_claims rows, claim_id = position
          participants,  \* incident_participants rows, participant_id = position
          sessions,      \* incident_department_sessions rows, session_id = position
          events,        \* incident_events rows, event_id = position
          now,           \* the wall clock read by utc_iso_now()
          result,        \* what the last call returned to its caller
          _unclaimed_reminded,   \* ReminderService: incident_id -> t_department_assigned
          unclaimed_incidents,   \* rows the running reminder pass has still to visit
          sent_reminders,        \* unclaimed reminders delivered to the chats
          users,                 \* users table: user_id -> row
          _lock,                 \* Database._lock: the thread that holds it, or NULL
          pc,                    \* where each thread of callers is
          txn                    \* the transaction a thread has open, if any

vars == <<incidents, claims, participants, sessions, events, now, result,
          _unclaimed_reminded, unclaimed_incidents, sent_reminders, users,
          _lock, pc, txn>>

\* the state of the callers' threads
lock_vars == <<_lock, pc, txn>>

\* the threads that call the Database object
Threads == {1, 2}

(***************************************************************************)
(* Bounds of the model.                                                    *)
(***************************************************************************)
MaxIncidents == 2      \* incidents created in one behaviour
MaxEvents == 3         \* rows of incident_events in one behaviour
MaxTime == 1           \* clock readings 0..MaxTime

(***************************************************************************)
(* SQL NULL / Python None.  The code itself uses -1 as the stand-in for a  *)
(* NULL department (COALESCE(department_id, -1)).                          *)
(***************************************************************************)
NULL == -1
NullText == "<null>"

(***************************************************************************)
(* Configuration rows that the lifecycle only reads: users, groups,        *)
(* companies and departments.  Departments 1 and 2 belong to company 1,    *)
(* department 3 to company 2; department id 4 names no row.                *)
(***************************************************************************)
Users == {101, 102}
Groups == {-42}

\* The text f"{new_num:04d}": the decimal digits of new_num, zero-padded on
\* the left to four characters.  A text of digits is the tuple of its digits.
RECURSIVE Digits(_)
Digits(n) == IF n < 10 THEN <<n>> ELSE Append(Digits(n \div 10), n % 10)

ZeroPadded(n) ==
    LET ds == Digits(n)
    IN  IF Len(ds) >= 4 THEN ds ELSE [k \in 1..(4 - Len(ds)) |-> 0] \o ds

\* extract_suffix: int() of the last digit group of the id; an id made of
\* digits only is one group.
RECURSIVE extract_suffix(_)
extract_suffix(incident_id) ==
    IF incident_id = <<>> THEN 0
    ELSE extract_suffix(SubSeq(incident_id, 1, Len(incident_id) - 1)) * 10
             + incident_id[Len(incident_id)]

\* the incident ids a caller may name
IncidentIds == {ZeroPadded(n) : n \in 1..MaxIncidents}
DepartmentIds == {1, 2, 3, 4}
Summaries == {"", "fixed"}

departments == (1 :> [department_id |-> 1, company_id |-> 1])
            @@ (2 :> [department_id |-> 2, company_id |-> 1])
            @@ (3 :> [department_id |-> 3, company_id |-> 2])

GroupCompany(group_id) == 1

\* Python truthiness of an Optional[int] column value.
Truthy(v) == v /= NULL /\ v /= 0

Max(S) == CHOOSE x \in S : \A y \in S : y <= x

\* The store a transaction reads and writes.
Store == [incidents |-> incidents, claims |-> claims, participants |-> participants,
          sessions |-> sessions, events |-> events]

(***************************************************************************)
(* What a call hands back.  outcome is "ok" for (True, message) or a       *)
(* returned value, "rejected" for (False, reason), "raised" when an        *)
(* exception left the function.  db is the store the body has written      *)
(* when it ends; get_connection decides whether it is committed.           *)
(***************************************************************************)
Returned(db, ok, reason) ==
    [outcome |-> IF ok THEN "ok" ELSE "rejected", reason |-> reason, db |-> db]

Raised(db, exc) == [outcome |-> "raised", reason |-> exc, db |-> db]

\* get_connection that commits whatever the body has written, also when it raises
get_connection_commits(before, body) == body

\* get_connection(): commit when the body ends normally (a return included),
\* rollback and re-raise when it raises.
get_connection(before, body) ==
    IF body.outcome = "raised" THEN [body EXCEPT !.db = before] ELSE body

\* _record_event: one INSERT into incident_events, stamped with the clock.
_record_event(db, incident_id, event_type, user_id, metadata, t) ==
    [db EXCEPT !.events = Append(@, [incident_id |-> incident_id,
                                     event_type |-> event_type,
                                     actor_user_id |-> user_id,
                                     at |-> t,
                                     metadata |-> metadata])]

\* generate_incident_id with "new_num = last_num + 1" written as last_num.
generate_incident_id_same(db) ==
    LET suffixes == {extract_suffix(incident_id) : incident_id \in DOMAIN db.incidents}
    IN  ZeroPadded(IF suffixes = {} THEN 0 ELSE Max(suffixes))

\* generate_incident_id: the largest numeric suffix in the table, plus one,
\* as zero-padded text.
generate_incident_id(db) ==
    LET suffixes == {extract_suffix(incident_id) : incident_id \in DOMAIN db.incidents}
        last_num == IF suffixes = {} THEN 0 ELSE Max(suffixes)
        new_num == last_num + 1
    IN  ZeroPadded(new_num)

\* create_incident with the _record_event call left out.
create_incident_unlogged(db, group_id, created_by_id, company_id, t) ==
    LET incident_id == generate_incident_id(db)
        row == [incident_id |-> incident_id,
                group_id |-> group_id,
                company_id |-> company_id,
                status |-> "Awaiting_Department",
                created_by_id |-> created_by_id,
                resolution_summary |-> NullText,
                department_id |-> NULL,
                pending_resolution_by_user_id |-> NULL,
                resolved_by_user_id |-> NULL,
                t_created |-> t,
                t_department_assigned |-> NULL,
                t_first_claimed |-> NULL,
                t_last_claimed |-> NULL,
                t_resolution_requested |-> NULL,
                t_resolved |-> NULL,
                current_department_session_id |-> NULL]
    IN  IF incident_id \in DOMAIN db.incidents
        THEN Raised(db, "IntegrityError: UNIQUE constraint failed: incidents.incident_id")
        ELSE [outcome |-> "ok", reason |-> "created",
              db |-> [db EXCEPT !.incidents = (incident_id :> row) @@ @]]

\* create_incident: INSERT the row in Awaiting_Department, record 'create'.
create_incident(db, group_id, created_by_id, company_id, t) ==
    LET incident_id == generate_incident_id(db)
        row == [incident_id |-> incident_id,
                group_id |-> group_id,
                company_id |-> company_id,
                status |-> "Awaiting_Department",
                created_by_id |-> created_by_id,
                resolution_summary |-> NullText,
                department_id |-> NULL,
                pending_resolution_by_user_id |-> NULL,
                resolved_by_user_id |-> NULL,
                t_created |-> t,
                t_department_assigned |-> NULL,
                t_first_claimed |-> NULL,
                t_last_claimed |-> NULL,
                t_resolution_requested |-> NULL,
                t_resolved |-> NULL,
                current_department_session_id |-> NULL]
        db1 == [db EXCEPT !.incidents = (incident_id :> row) @@ @]
        db2 == _record_event(db1, incident_id, "create", created_by_id,
                             [group_id |-> group_id, company_id |-> company_id], t)
    IN  IF incident_id \in DOMAIN db.incidents
        THEN Raised(db, "IntegrityError: UNIQUE constraint failed: incidents.incident_id")
        ELSE [outcome |-> "ok", reason |-> "created", db |-> db2]

(***************************************************************************)
(* Claim helpers.                                                          *)
(***************************************************************************)

\* _start_participation: INSERT ... ON CONFLICT(incident_id, user_id,
\* department_id) DO UPDATE: create the rollup or reactivate it.
_start_participation(db, incident_id, user_id, department_id, claimed_at) ==
    LET hit == {k \in 1..Len(db.participants) :
                   /\ db.participants[k].incident_id = incident_id
                   /\ db.participants[k].user_id = user_id
                   /\ db.participants[k].department_id = department_id
                   /\ department_id /= NULL}
        fresh == [incident_id |-> incident_id,
                  user_id |-> user_id,
                  department_id |-> department_id,
                  first_claimed_at |-> claimed_at,
                  last_claimed_at |-> claimed_at,
                  last_released_at |-> NULL,
                  active_since |-> claimed_at,
                  is_active |-> 1,
                  total_active_seconds |-> 0,
                  join_count |-> 1,
                  status |-> "active",
                  resolved_at |-> NULL]
    IN  IF hit = {}
        THEN [db EXCEPT !.participants = Append(@, fresh)]
        ELSE [db EXCEPT !.participants =
                 [k \in 1..Len(@) |->
                     IF k \in hit
                     THEN [@[k] EXCEPT !.last_claimed_at = claimed_at,
                                       !.active_since = claimed_at,
                                       !.is_active = 1,
                                       !.status = "active",
                                       !.join_count = @ + 1,
                                       !.resolved_at = NULL]
                     ELSE @[k]]]

\* _finalize_participation: close the participant's active period and
\* accrue int(max(0, stop_time - active_since)) seconds.
_finalize_participation(db, incident_id, user_id, department_id, stop_time, status, mark_resolved) ==
    LET hit == {k \in 1..Len(db.participants) :
                   /\ db.participants[k].incident_id = incident_id
                   /\ db.participants[k].user_id = user_id
                   /\ db.participants[k].department_id = department_id}
    IN  IF hit = {} THEN db
        ELSE
        LET row == db.participants[CHOOSE k \in hit : \A j \in hit : k <= j]
            delta == IF stop_time - row.active_since > 0
                     THEN stop_time - row.active_since ELSE 0
            total_seconds == IF row.is_active = 1 /\ row.active_since /= NULL
                             THEN row.total_active_seconds + delta
                             ELSE row.total_active_seconds
        IN  [db EXCEPT !.participants =
                [k \in 1..Len(@) |->
                    IF k \in hit
                    THEN [@[k] EXCEPT !.is_active = 0,
                                      !.active_since = NULL,
                                      !.last_released_at = stop_time,
                                      !.total_active_seconds = total_seconds,
                                      !.status = status,
                                      !.resolved_at = IF mark_resolved
                                                      THEN stop_time ELSE @]
                    ELSE @[k]]]

\* The rows a "SELECT user_id, department_id FROM <table> WHERE incident_id = ?
\* AND is_active = 1" returns, in rowid order.
ActiveRows(table, incident_id) ==
    SelectSeq(table, LAMBDA r : r.incident_id = incident_id /\ r.is_active = 1)

\* the loop "for row in rows: self._finalize_participation(..., status)"
RECURSIVE FinalizeEach(_, _, _, _, _, _)
FinalizeEach(db, incident_id, rows, stop_time, status, mark_resolved) ==
    IF rows = <<>> THEN db
    ELSE FinalizeEach(
             _finalize_participation(db, incident_id, Head(rows).user_id,
                                     Head(rows).department_id, stop_time,
                                     status, mark_resolved),
             incident_id, Tail(rows), stop_time, status, mark_resolved)

\* the loop of _finalize_active_participants: the resolver's rollup becomes
\* resolved_self, every other active rollup resolved_other
RECURSIVE FinalizeResolved(_, _, _, _, _)
FinalizeResolved(db, incident_id, rows, resolved_by_user_id, resolved_at) ==
    IF rows = <<>> THEN db
    ELSE FinalizeResolved(
             _finalize_participation(db, incident_id, Head(rows).user_id,
                                     Head(rows).department_id, resolved_at,
                                     IF Head(rows).user_id = resolved_by_user_id
                                     THEN "resolved_self" ELSE "resolved_other",
                                     TRUE),
             incident_id, Tail(rows), resolved_by_user_id, resolved_at)

\* _finalize_active_participants: finalize every active rollup of the incident
_finalize_active_participants(db, incident_id, resolved_by_user_id, resolved_at) ==
    FinalizeResolved(db, incident_id, ActiveRows(db.participants, incident_id),
                     resolved_by_user_id, resolved_at)

\* _finalize_active_participants_closed: every active rollup -> closed
_finalize_active_participants_closed(db, incident_id, closed_at) ==
    FinalizeEach(db, incident_id, ActiveRows(db.participants, incident_id), closed_at,
                 "closed", TRUE)

\* _close_active_claims: UPDATE incident_claims SET is_active = 0,
\* released_at = COALESCE(released_at, ?) WHERE incident_id = ? AND is_active = 1
_close_active_claims(db, incident_id, closed_at) ==
    [db EXCEPT !.claims =
        [k \in 1..Len(@) |->
            IF @[k].incident_id = incident_id /\ @[k].is_active = 1
            THEN [@[k] EXCEPT !.is_active = 0,
                              !.released_at = IF @ /= NULL THEN @ ELSE closed_at]
            ELSE @[k]]]

\* _start_department_session: INSERT an 'active' session; lastrowid is its id.
_start_department_session(db, incident_id, department_id, user_id, assigned_at) ==
    [db EXCEPT !.sessions = Append(@, [incident_id |-> incident_id,
                                       department_id |-> department_id,
                                       assigned_at |-> assigned_at,
                                       assigned_by_user_id |-> user_id,
                                       claimed_at |-> NULL,
                                       released_at |-> NULL,
                                       status |-> "active"])]

\* _end_active_department_session whose UPDATE matches no row
end_session_matches_nothing(db, incident_id, end_time, status) == db

\* _end_active_department_session: close every 'active' session of the incident.
_end_active_department_session(db, incident_id, end_time, status) ==
    [db EXCEPT !.sessions =
        [k \in 1..Len(@) |->
            IF @[k].incident_id = incident_id /\ @[k].status = "active"
            THEN [@[k] EXCEPT !.status = status,
                              !.released_at = IF @ /= NULL THEN @ ELSE end_time]
            ELSE @[k]]]

\* _touch_department_session_claim: claimed_at = COALESCE(claimed_at, ?)
_touch_department_session_claim(db, incident_id, claimed_at) ==
    [db EXCEPT !.sessions =
        [k \in 1..Len(@) |->
            IF @[k].incident_id = incident_id /\ @[k].status = "active"
            THEN [@[k] EXCEPT !.claimed_at = IF @ /= NULL THEN @ ELSE claimed_at]
            ELSE @[k]]]

\* _has_active_claim: an active claim row of this user on this incident exists.
_has_active_claim(db, incident_id, user_id) ==
    \E k \in 1..Len(db.claims) :
        /\ db.claims[k].incident_id = incident_id
        /\ db.claims[k].user_id = user_id
        /\ db.claims[k].is_active = 1

\* _count_active_claims: COUNT(*) of the incident's active claim rows.
_count_active_claims(db, incident_id) ==
    Cardinality({k \in 1..Len(db.claims) :
                    db.claims[k].incident_id = incident_id /\ db.claims[k].is_active = 1})

(***************************************************************************)
(* The lifecycle operations.  Each is the body of the "with                *)
(* self.get_connection()" block: it returns what the body returns and the  *)
(* store as the body has written it.                                       *)
(***************************************************************************)

\* UPDATE incidents SET ... WHERE incident_id = ?
UpdateIncident(db, incident_id, row) == [db EXCEPT !.incidents[incident_id] = row]

\* assign_incident_department as it would read with one slip in it: the
\* UPDATE writes new_status; with close_first the active department session
\* is closed before the department has been looked up; with reread_previous
\* previous_department_id is taken from the row after the UPDATE.
assign_variant(db, incident_id, department_id, assigned_by_user_id, t, new_status, close_first, reread_previous) ==
    IF incident_id \notin DOMAIN db.incidents
    THEN Returned(db, FALSE, "Incident not found.")
    ELSE
    LET incident == db.incidents[incident_id]
        early == IF close_first
                 THEN _end_active_department_session(db, incident_id, t, "transferred")
                 ELSE db
    IN
    IF incident.status \in {"Resolved", "Closed", "Awaiting_Summary"}
    THEN Returned(db, FALSE, "Department cannot be changed while the incident is closing out.")
    ELSE IF incident.department_id = department_id /\ incident.status /= "Awaiting_Department"
    THEN Returned(db, FALSE, "Incident already assigned to this department.")
    ELSE IF department_id \notin DOMAIN departments
    THEN Returned(early, FALSE, "Department not found.")
    ELSE IF Truthy(incident.company_id)
            /\ departments[department_id].company_id /= incident.company_id
    THEN Returned(early, FALSE, "Department does not belong to this company.")
    ELSE
    LET active_claims == ActiveRows(db.claims, incident_id)
        db1 == FinalizeEach(db, incident_id, active_claims, t,
                            "transferred", FALSE)
        db2 == IF active_claims /= <<>> THEN _close_active_claims(db1, incident_id, t)
               ELSE db1
        db3 == _end_active_department_session(db2, incident_id, t, "transferred")
        db4 == _start_department_session(db3, incident_id, department_id,
                                         assigned_by_user_id, t)
        db5 == UpdateIncident(db4, incident_id,
                   [db4.incidents[incident_id] EXCEPT
                       !.department_id = department_id,
                       !.status = new_status,
                       !.t_department_assigned = t,
                       !.current_department_session_id = Len(db4.sessions)])
        db6 == _record_event(db5, incident_id, "department_assigned", assigned_by_user_id,
                             [department_id |-> department_id,
                              previous_department_id |->
                                  IF reread_previous
                                  THEN db5.incidents[incident_id].department_id
                                  ELSE incident.department_id,
                              status_before |-> incident.status], t)
    IN  Returned(db6, TRUE, "Department updated")

\* the UPDATE writes status = 'In_Progress'
assign_marks_in_progress(db, incident_id, department_id, assigned_by_user_id, t) ==
    assign_variant(db, incident_id, department_id, assigned_by_user_id, t,
                   "In_Progress", FALSE, FALSE)

\* the UPDATE writes status = 'Awaiting_Summary'
assign_marks_awaiting_summary(db, incident_id, department_id, assigned_by_user_id, t) ==
    assign_variant(db, incident_id, department_id, assigned_by_user_id, t,
                   "Awaiting_Summary", FALSE, FALSE)

\* the active session is closed before the department checks reject the call
assign_closes_session_early(db, incident_id, department_id, assigned_by_user_id, t) ==
    assign_variant(db, incident_id, department_id, assigned_by_user_id, t,
                   "Awaiting_Claim", TRUE, FALSE)

\* previous_department_id is read after the UPDATE has overwritten it
assign_rereads_previous(db, incident_id, department_id, assigned_by_user_id, t) ==
    assign_variant(db, incident_id, department_id, assigned_by_user_id, t,
                   "Awaiting_Claim", FALSE, TRUE)

\* assign_incident_department: attach or change the department of an incident.
assign_incident_department(db, incident_id, department_id, assigned_by_user_id, t) ==
    IF incident_id \notin DOMAIN db.incidents
    THEN Returned(db, FALSE, "Incident not found.")
    ELSE
    LET incident == db.incidents[incident_id] IN
    IF incident.status \in {"Resolved", "Closed", "Awaiting_Summary"}
    THEN Returned(db, FALSE, "Department cannot be changed while the incident is closing out.")
    ELSE IF incident.department_id = department_id /\ incident.status /= "Awaiting_Department"
    THEN Returned(db, FALSE, "Incident already assigned to this department.")
    ELSE IF department_id \notin DOMAIN departments
    THEN Returned(db, FALSE, "Department not found.")
    ELSE IF Truthy(incident.company_id)
            /\ departments[department_id].company_id /= incident.company_id
    THEN Returned(db, FALSE, "Department does not belong to this company.")
    ELSE
    LET previous_department_id == incident.department_id
        active_claims == ActiveRows(db.claims, incident_id)
        db1 == FinalizeEach(db, incident_id, active_claims, t,
                            "transferred", FALSE)
        db2 == IF active_claims /= <<>> THEN _close_active_claims(db1, incident_id, t)
               ELSE db1
        db3 == _end_active_department_session(db2, incident_id, t, "transferred")
        db4 == _start_department_session(db3, incident_id, department_id,
                                         assigned_by_user_id, t)
        session_id == Len(db4.sessions)
        db5 == UpdateIncident(db4, incident_id,
                   [db4.incidents[incident_id] EXCEPT
                       !.department_id = department_id,
                       !.status = "Awaiting_Claim",
                       !.t_department_assigned = t,
                       !.current_department_session_id = session_id])
        db6 == _record_event(db5, incident_id, "department_assigned", assigned_by_user_id,
                             [department_id |-> department_id,
                              previous_department_id |-> previous_department_id,
                              status_before |-> incident.status], t)
    IN  Returned(db6, TRUE, "Department updated")

\* The statement of a transaction that a storage error (sqlite3.Error: disk
\* full, I/O error, database locked) interrupts.  The statements before it
\* have been executed on the connection, the failing one and those after it
\* have not.
StorageErrors ==
    [k \in 1..6 |->
        CASE k = 1 -> "OperationalError: UPDATE incident_participants"
          [] k = 2 -> "OperationalError: UPDATE incident_claims"
          [] k = 3 -> "OperationalError: UPDATE incident_department_sessions"
          [] k = 4 -> "OperationalError: INSERT INTO incident_department_sessions"
          [] k = 5 -> "OperationalError: UPDATE incidents"
          [] k = 6 -> "OperationalError: INSERT INTO incident_events"]

\* create_incident whose INSERT INTO incidents (failing = 5) or whose
\* INSERT INTO incident_events (failing = 6) raises a storage error
create_incident_failing(db, group_id, created_by_id, company_id, t, failing) ==
    LET done == create_incident(db, group_id, created_by_id, company_id, t)
        incident_id == generate_incident_id(db)
        inserted == [db EXCEPT !.incidents =
                        (incident_id :> done.db.incidents[incident_id]) @@ @]
    IN  IF done.outcome /= "ok" THEN done
        ELSE Raised(IF failing = 6 THEN inserted ELSE db, StorageErrors[failing])

\* assign_incident_department whose failing-th write statement raises a
\* storage error: the checks and the writes before it are those of
\* assign_incident_department
assign_incident_department_failing(db, incident_id, department_id, assigned_by_user_id, t, failing) ==
    LET checked == assign_incident_department(db, incident_id, department_id,
                                              assigned_by_user_id, t)
    IN  IF checked.outcome /= "ok" THEN checked
        ELSE
        LET active_claims == ActiveRows(db.claims, incident_id)
            db1 == FinalizeEach(db, incident_id, active_claims, t, "transferred", FALSE)
            db2 == IF active_claims /= <<>> THEN _close_active_claims(db1, incident_id, t)
                   ELSE db1
            db3 == _end_active_department_session(db2, incident_id, t, "transferred")
            db4 == _start_department_session(db3, incident_id, department_id,
                                             assigned_by_user_id, t)
            db5 == UpdateIncident(db4, incident_id,
                       [db4.incidents[incident_id] EXCEPT
                           !.department_id = department_id,
                           !.status = "Awaiting_Claim",
                           !.t_department_assigned = t,
                           !.current_department_session_id = Len(db4.sessions)])
        IN  Raised(CASE failing = 1 -> db
                     [] failing = 2 -> db1
                     [] failing = 3 -> db2
                     [] failing = 4 -> db3
                     [] failing = 5 -> db4
                     [] failing = 6 -> db5,
                   StorageErrors[failing])

\* The sqlite3.Row that claim_incident fetches: SELECT status, department_id
\* FROM incidents WHERE incident_id = ?  -- a row of exactly these two columns.
claim_select(db, incident_id) ==
    [status |-> db.incidents[incident_id].status,
     department_id |-> db.incidents[incident_id].department_id]

\* claim_incident: claim or co-claim an incident for its current department.
\* The 'claim' event's metadata reads incident['t_first_claimed'] from the
\* fetched row; sqlite3.Row raises IndexError for a column the SELECT did not
\* return, and the exception leaves the function after the writes were issued.
claim_incident(db, incident_id, user_id, t) ==
    IF incident_id \notin DOMAIN db.incidents
    THEN Returned(db, FALSE, "Incident not found.")
    ELSE
    LET incident == claim_select(db, incident_id) IN
    IF ~Truthy(incident.department_id)
    THEN Returned(db, FALSE, "Incident does not have a department yet.")
    ELSE IF incident.status \notin {"Awaiting_Claim", "In_Progress"}
    THEN Returned(db, FALSE, "This incident cannot be claimed right now.")
    ELSE IF _has_active_claim(db, incident_id, user_id)
    THEN Returned(db, FALSE, "You're already working on this incident.")
    ELSE
    LET db1 == [db EXCEPT !.claims = Append(@, [incident_id |-> incident_id,
                                                user_id |-> user_id,
                                                department_id |-> incident.department_id,
                                                claimed_at |-> t,
                                                released_at |-> NULL,
                                                is_active |-> 1])]
        db2 == _start_participation(db1, incident_id, user_id, incident.department_id, t)
        db3 == UpdateIncident(db2, incident_id,
                   [db2.incidents[incident_id] EXCEPT
                       !.status = "In_Progress",
                       !.t_first_claimed = IF @ /= NULL THEN @ ELSE t,
                       !.t_last_claimed = t,
                       !.pending_resolution_by_user_id = NULL])
        db4 == _touch_department_session_claim(db3, incident_id, t)
    IN  IF "t_first_claimed" \notin DOMAIN incident
        THEN Raised(db4, "IndexError: No item with that key")
        ELSE Returned(_record_event(db4, incident_id, "claim", user_id,
                          [department_id |-> incident.department_id,
                           is_first_claim |-> (incident.t_first_claimed = NULL)], t),
                      TRUE, "Claim successful")

\* release_claim: release the requesting user's active claim.
release_claim(db, incident_id, user_id, t) ==
    IF incident_id \notin DOMAIN db.incidents
    THEN Returned(db, FALSE, "Incident not found.")
    ELSE
    LET incident == db.incidents[incident_id]
        mine == SelectSeq(db.claims, LAMBDA r : /\ r.incident_id = incident_id
                                                /\ r.user_id = user_id
                                                /\ r.is_active = 1)
    IN
    IF incident.status \notin {"Awaiting_Claim", "In_Progress"}
    THEN Returned(db, FALSE, "You cannot leave this incident right now.")
    ELSE IF mine = <<>>
    THEN Returned(db, FALSE, "You are not part of this incident.")
    ELSE
    LET claim_row == Head(mine)
        db1 == [db EXCEPT !.claims =
                   [k \in 1..Len(@) |->
                       IF /\ @[k].incident_id = incident_id
                          /\ @[k].user_id = user_id
                          /\ @[k].is_active = 1
                       THEN [@[k] EXCEPT !.is_active = 0, !.released_at = t]
                       ELSE @[k]]]
        db2 == _finalize_participation(db1, incident_id, user_id,
                                       claim_row.department_id, t, "released", FALSE)
        remaining == _count_active_claims(db2, incident_id)
        db3 == IF remaining = 0 /\ incident.status /= "Awaiting_Summary"
               THEN UpdateIncident(db2, incident_id,
                        [db2.incidents[incident_id] EXCEPT !.status = "Awaiting_Claim"])
               ELSE db2
        db4 == _record_event(db3, incident_id, "release", user_id,
                             [remaining_active |-> remaining,
                              department_id |-> claim_row.department_id], t)
    IN  Returned(db4, TRUE, "Claim released successfully")

\* request_resolution: ask the claimer for the closing summary.
request_resolution(db, incident_id, user_id, t) ==
    IF incident_id \notin DOMAIN db.incidents
    THEN Returned(db, FALSE, "Incident not found.")
    ELSE
    LET incident == db.incidents[incident_id] IN
    IF incident.status /= "In_Progress"
    THEN Returned(db, FALSE, "You cannot resolve this incident right now.")
    ELSE IF ~_has_active_claim(db, incident_id, user_id)
    THEN Returned(db, FALSE, "You need to be an active claimer to resolve.")
    ELSE
    LET rowcount == IF db.incidents[incident_id].status = "In_Progress" THEN 1 ELSE 0
        db1 == UpdateIncident(db, incident_id,
                   [db.incidents[incident_id] EXCEPT
                       !.status = "Awaiting_Summary",
                       !.pending_resolution_by_user_id = user_id,
                       !.t_resolution_requested = t])
    IN  IF rowcount > 0
        THEN Returned(_record_event(db1, incident_id, "resolution_requested", user_id,
                                    [department_id |-> incident.department_id], t),
                      TRUE, "Resolution requested successfully")
        ELSE Returned(db, FALSE, "You cannot resolve this incident.")

\* the WHERE clause reduced to "WHERE incident_id = ?"
where_incident_only(db, incident_id, user_id) == incident_id \in DOMAIN db.incidents

\* the WHERE clause shared by resolve_incident's SELECT and UPDATE
AwaitingSummaryFrom(db, incident_id, user_id) ==
    /\ incident_id \in DOMAIN db.incidents
    /\ db.incidents[incident_id].status = "Awaiting_Summary"
    /\ db.incidents[incident_id].pending_resolution_by_user_id = user_id

\* resolve_incident: only the user asked for the summary can resolve.
resolve_incident(db, incident_id, user_id, resolution_summary, t) ==
    IF ~AwaitingSummaryFrom(db, incident_id, user_id)
    THEN Returned(db, FALSE, "You cannot resolve this incident or it's not awaiting summary.")
    ELSE
    LET row == db.incidents[incident_id]
        rowcount == IF AwaitingSummaryFrom(db, incident_id, user_id) THEN 1 ELSE 0
        db1 == UpdateIncident(db, incident_id,
                   [db.incidents[incident_id] EXCEPT
                       !.status = "Resolved",
                       !.resolution_summary = resolution_summary,
                       !.t_resolved = t,
                       !.pending_resolution_by_user_id = NULL,
                       !.resolved_by_user_id = user_id])
        db2 == _close_active_claims(db1, incident_id, t)
        db3 == _finalize_active_participants(db2, incident_id, user_id, t)
        db4 == _end_active_department_session(db3, incident_id, t, "resolved")
        db5 == _record_event(db4, incident_id, "resolve", user_id,
                             [department_id |-> row.department_id], t)
    IN  IF rowcount > 0
        THEN Returned(db5, TRUE, "Incident resolved successfully")
        ELSE Returned(db, FALSE, "You cannot resolve this incident or it's not awaiting summary.")

\* auto_close_incident: close an incident stuck awaiting its summary.
auto_close_incident(db, incident_id, summary, reason, t) ==
    IF incident_id \notin DOMAIN db.incidents
    THEN Returned(db, FALSE, "Incident not found.")
    ELSE
    LET row == db.incidents[incident_id] IN
    IF row.status /= "Awaiting_Summary"
    THEN Returned(db, FALSE, "Incident is not awaiting summary.")
    ELSE
    LET pending_user_id == row.pending_resolution_by_user_id
        rowcount == IF db.incidents[incident_id].status = "Awaiting_Summary" THEN 1 ELSE 0
        db1 == UpdateIncident(db, incident_id,
                   [db.incidents[incident_id] EXCEPT
                       !.status = "Closed",
                       !.resolution_summary = summary,
                       !.t_resolved = t,
                       !.pending_resolution_by_user_id = NULL,
                       !.resolved_by_user_id = IF pending_user_id /= NULL
                                               THEN pending_user_id ELSE @])
        db2 == _close_active_claims(db1, incident_id, t)
        db3 == _finalize_active_participants_closed(db2, incident_id, t)
        db4 == _end_active_department_session(db3, incident_id, t, "closed")
        db5 == _record_event(db4, incident_id, "auto_closed", pending_user_id,
                             [reason |-> reason,
                              pending_user_id |-> pending_user_id,
                              department_id |-> row.department_id], t)
    IN  IF rowcount = 0
        THEN Returned(db, FALSE, "Incident status changed before auto-close.")
        ELSE Returned(db5, TRUE, "Incident auto-closed.")

(***************************************************************************)
(* The state machine: a caller invokes one operation with any arguments.   *)
(***************************************************************************)

\* state after Database.__init__ on a new file and ReminderService.__init__:
\* empty incident tables, empty reminder map
Init ==
    /\ incidents = <<>>
    /\ claims = <<>>
    /\ participants = <<>>
    /\ sessions = <<>>
    /\ events = <<>>
    /\ now = 0
    /\ result = [op |-> "__init__", outcome |-> "ok", reason |-> ""]
    /\ _unclaimed_reminded = <<>>
    /\ unclaimed_incidents = <<>>
    /\ sent_reminders = <<>>
    /\ users = <<>>
    /\ _lock = NULL
    /\ pc = [t \in Threads |-> "idle"]
    /\ txn = [t \in Threads |-> <<>>]

\* the committed store becomes the state; the caller sees outcome and reason
Commit(op, r) ==
    /\ incidents' = r.db.incidents
    /\ claims' = r.db.claims
    /\ participants' = r.db.participants
    /\ sessions' = r.db.sessions
    /\ events' = r.db.events
    /\ result' = [op |-> op, outcome |-> r.outcome, reason |-> r.reason]
    /\ UNCHANGED <<now, _unclaimed_reminded, unclaimed_incidents, sent_reminders, users, lock_vars>>

\* One call of each public operation, under the lock and in one transaction.
CreateCall(g, u) ==
    Commit("create_incident",
           get_connection(Store, create_incident(Store, g, u, GroupCompany(g), now)))

AssignCall(i, d, u) ==
    Commit("assign_incident_department",
           get_connection(Store, assign_incident_department(Store, i, d, u, now)))

ClaimCall(i, u) ==
    Commit("claim_incident", get_connection(Store, claim_incident(Store, i, u, now)))

ReleaseCall(i, u) ==
    Commit("release_claim", get_connection(Store, release_claim(Store, i, u, now)))

RequestResolutionCall(i, u) ==
    Commit("request_resolution",
           get_connection(Store, request_resolution(Store, i, u, now)))

ResolveCall(i, u, s) ==
    Commit("resolve_incident", get_connection(Store, resolve_incident(Store, i, u, s, now)))

AutoCloseCall(i) ==
    Commit("auto_close_incident",
           get_connection(Store, auto_close_incident(Store, i, "timeout", "summary_timeout", now)))

\* the wall clock moves on between calls
Tick ==
    /\ now < MaxTime
    /\ now' = now + 1
    /\ UNCHANGED <<incidents, claims, participants, sessions, events, result>>
    /\ UNCHANGED <<_unclaimed_reminded, unclaimed_incidents, sent_reminders, users, lock_vars>>

CreateIncident ==
    \E g \in Groups, u \in Users :
        /\ Cardinality(DOMAIN incidents) < MaxIncidents
        /\ Len(events) < MaxEvents
        /\ CreateCall(g, u)

AssignDepartment ==
    \E i \in IncidentIds, d \in DepartmentIds, u \in Users :
        Len(events) < MaxEvents /\ AssignCall(i, d, u)

Claim ==
    \E i \in IncidentIds, u \in Users :
        Len(events) < MaxEvents /\ ClaimCall(i, u)

Release ==
    \E i \in IncidentIds, u \in Users :
        Len(events) < MaxEvents /\ ReleaseCall(i, u)

RequestResolution ==
    \E i \in IncidentIds, u \in Users :
        Len(events) < MaxEvents /\ RequestResolutionCall(i, u)

Resolve ==
    \E i \in IncidentIds, u \in Users, s \in Summaries :
        Len(events) < MaxEvents /\ ResolveCall(i, u, s)

AutoClose ==
    \E i \in IncidentIds :
        Len(events) < MaxEvents /\ AutoCloseCall(i)

Next ==
    \/ Tick
    \/ CreateIncident
    \/ AssignDepartment
    \/ Claim
    \/ Release
    \/ RequestResolution
    \/ Resolve
    \/ AutoClose

Spec == Init /\ [][Next]_vars

(***************************************************************************)
(* The same callers with a storage that may fail: a statement of a         *)
(* mutating call raises sqlite3.Error after the statements before it were  *)
(* executed.                                                               *)
(***************************************************************************)
CreateFaultCall(g, u, failing) ==
    Commit("create_incident",
           get_connection(Store, create_incident_failing(Store, g, u, GroupCompany(g),
                                                         now, failing)))

AssignFaultCall(i, d, u, failing) ==
    Commit("assign_incident_department",
           get_connection(Store, assign_incident_department_failing(Store, i, d, u,
                                                                    now, failing)))

CreateIncidentFault ==
    \E g \in Groups, u \in Users, failing \in {5, 6} :
        /\ Cardinality(DOMAIN incidents) < MaxIncidents
        /\ Len(events) < MaxEvents
        /\ CreateFaultCall(g, u, failing)

AssignDepartmentFault ==
    \E i \in IncidentIds, d \in DepartmentIds, u \in Users, failing \in 1..6 :
        Len(events) < MaxEvents /\ AssignFaultCall(i, d, u, failing)

FaultNext ==
    \/ Next
    \/ CreateIncidentFault
    \/ AssignDepartmentFault

FaultSpec == Init /\ [][FaultNext]_vars

(***************************************************************************)
(* The chat handlers (src/handlers.py).  A handler runs from the update    *)
(* to the lifecycle call without awaiting anything on the path that        *)
(* reaches the call, so its checks and the call are one step.  What the    *)
(* user is answered is the result: "ok", "rejected" with the alert text,   *)
(* or "error" when callback_handler caught an exception.                   *)
(***************************************************************************)

\* chats updates arrive from: -42 is a registered, active group; -43 is a
\* group chat the bot has no row for; -44 is a registered group whose
\* activation is pending.  -45 is the active group of another company; its
\* updates are taken together with those of -42 in GroupsSpec below.
Chats == {-42, -43, -44}

group_rows == (-42 :> [group_id |-> -42, company_id |-> 1, status |-> "active"])
           @@ (-44 :> [group_id |-> -44, company_id |-> 1, status |-> "pending"])
           @@ (-45 :> [group_id |-> -45, company_id |-> 2, status |-> "active"])

\* department_members rows (department_id, user_id)
department_members == {<<1, 101>>, <<2, 102>>}

\* is_user_in_department: SELECT 1 FROM department_members WHERE ...
is_user_in_department(department_id, user_id) ==
    <<department_id, user_id>> \in department_members

\* _require_active_group without the test of membership['is_active']
require_registered_group(chat) == chat \in DOMAIN group_rows

\* _require_active_group: the chat is a registered group whose status is active
_require_active_group(chat) ==
    chat \in DOMAIN group_rows /\ group_rows[chat].status = "active"

\* new_issue_command: create the incident for the group's company
new_issue_command(db, chat, user, t) ==
    IF ~_require_active_group(chat)
    THEN Returned(db, FALSE, "This group is not registered yet.")
    ELSE get_connection(db, create_incident(db, chat, user, group_rows[chat].company_id, t))

\* _handle_select_department without the reporter check
select_department_by_anyone(db, user, incident_id, department_id, t) ==
    IF incident_id \notin DOMAIN db.incidents
    THEN Returned(db, FALSE, "Incident not found.")
    ELSE get_connection(db, assign_incident_department(db, incident_id, department_id, user, t))

\* _handle_select_department: the reporter chooses the department
_handle_select_department(db, user, incident_id, department_id, t) ==
    IF incident_id \notin DOMAIN db.incidents
    THEN Returned(db, FALSE, "Incident not found.")
    ELSE IF db.incidents[incident_id].created_by_id /= user
    THEN Returned(db, FALSE, "Only the reporter can choose the department.")
    ELSE get_connection(db, assign_incident_department(db, incident_id, department_id, user, t))

\* _handle_reassign_department: a member of the current department transfers
_handle_reassign_department(db, user, incident_id, department_id, t) ==
    IF incident_id \notin DOMAIN db.incidents
       \/ ~Truthy(db.incidents[incident_id].department_id)
    THEN Returned(db, FALSE, "Incident not found or not yet assigned.")
    ELSE IF ~is_user_in_department(db.incidents[incident_id].department_id, user)
    THEN Returned(db, FALSE, "Only members of the current department can transfer this issue.")
    ELSE get_connection(db, assign_incident_department(db, incident_id, department_id, user, t))

\* _handle_claim without the department membership check
claim_by_anyone(db, user, incident_id, t) ==
    IF incident_id \notin DOMAIN db.incidents
    THEN Returned(db, FALSE, "Incident not found.")
    ELSE IF ~Truthy(db.incidents[incident_id].department_id)
    THEN Returned(db, FALSE, "Please choose a department first.")
    ELSE get_connection(db, claim_incident(db, incident_id, user, t))

\* _handle_claim: a member of the incident's department claims it
_handle_claim(db, user, incident_id, t) ==
    IF incident_id \notin DOMAIN db.incidents
    THEN Returned(db, FALSE, "Incident not found.")
    ELSE IF ~Truthy(db.incidents[incident_id].department_id)
    THEN Returned(db, FALSE, "Please choose a department first.")
    ELSE IF ~is_user_in_department(db.incidents[incident_id].department_id, user)
    THEN Returned(db, FALSE, "You are not a member of this department.")
    ELSE get_connection(db, claim_incident(db, incident_id, user, t))

\* _handle_release: hands the click to release_claim
_handle_release(db, user, incident_id, t) ==
    get_connection(db, release_claim(db, incident_id, user, t))

\* _handle_resolve: hands the click to request_resolution
_handle_resolve(db, user, incident_id, t) ==
    get_connection(db, request_resolution(db, incident_id, user, t))

\* message_handler: a reply to the bot's request for a resolution summary
message_handler(db, user, incident_id, resolution_summary, t) ==
    IF incident_id \notin DOMAIN db.incidents
    THEN Returned(db, FALSE, "Incident not found.")
    ELSE IF db.incidents[incident_id].status /= "Awaiting_Summary"
    THEN Returned(db, FALSE, "Incident is not awaiting a summary.")
    ELSE IF db.incidents[incident_id].pending_resolution_by_user_id /= user
    THEN Returned(db, FALSE, "You are not authorized to resolve this incident.")
    ELSE get_connection(db, resolve_incident(db, incident_id, user, resolution_summary, t))

\* The chat calls a handler awaits once its lifecycle call has returned
\* success (edit_message_text, answer, send_message, reply_text,
\* pin_chat_message, unpin_chat_message): when the chat refuses one of them
\* the call raises TelegramError, after the lifecycle call has committed.
chat_calls(handled, delivered) ==
    IF handled.outcome = "ok" /\ ~delivered
    THEN Raised(handled.db, "TelegramError")
    ELSE handled

\* the "except TelegramError" of new_issue_command and message_handler: the
\* user is told that the lifecycle call was made but the message was not updated
except_TelegramError(handled) ==
    IF handled.outcome = "raised" /\ handled.reason = "TelegramError"
    THEN [outcome |-> "error", reason |-> "done, but couldn't update the message",
          db |-> handled.db]
    ELSE handled

\* callback_handler whose exception handler puts the tables back as they
\* were when the update arrived
callback_handler_restores(db, chat, handled) ==
    IF ~_require_active_group(chat)
    THEN Returned(db, FALSE, "This group is not registered yet.")
    ELSE IF handled.outcome = "raised"
    THEN [outcome |-> "error", reason |-> "An error occurred. Please try again.",
          db |-> db]
    ELSE handled

\* callback_handler: the group gate, then the routed handler; an exception
\* from the handler is caught and answered with a generic alert
callback_handler(db, chat, handled) ==
    IF ~_require_active_group(chat)
    THEN Returned(db, FALSE, "This group is not registered yet.")
    ELSE IF handled.outcome = "raised"
    THEN [outcome |-> "error", reason |-> "An error occurred. Please try again.",
          db |-> handled.db]
    ELSE handled

\* One update of each kind, handled to its end.
\* The chat takes or refuses the handler's messages.
NewIssueUpdate(chat, u) ==
    \E delivered \in BOOLEAN :
        Commit("new_issue",
               except_TelegramError(chat_calls(new_issue_command(Store, chat, u, now),
                                               delivered)))

SelectDepartmentUpdate(chat, u, i, d) ==
    \E delivered \in BOOLEAN :
        Commit("select_department",
               callback_handler(Store, chat,
                   chat_calls(_handle_select_department(Store, u, i, d, now), delivered)))

ReassignDepartmentUpdate(chat, u, i, d) ==
    \E delivered \in BOOLEAN :
        Commit("reassign_department",
               callback_handler(Store, chat,
                   chat_calls(_handle_reassign_department(Store, u, i, d, now), delivered)))

ClaimUpdate(chat, u, i) ==
    \E delivered \in BOOLEAN :
        Commit("claim",
               callback_handler(Store, chat,
                   chat_calls(_handle_claim(Store, u, i, now), delivered)))

ReleaseUpdate(chat, u, i) ==
    \E delivered \in BOOLEAN :
        Commit("release",
               callback_handler(Store, chat,
                   chat_calls(_handle_release(Store, u, i, now), delivered)))

ResolveUpdate(chat, u, i) ==
    \E delivered \in BOOLEAN :
        Commit("resolve",
               callback_handler(Store, chat,
                   chat_calls(_handle_resolve(Store, u, i, now), delivered)))

\* message_handler never looks at the status of the group the reply came from
SummaryReplyUpdate(chat, u, i, s) ==
    \E delivered \in BOOLEAN :
        Commit("summary_reply",
               except_TelegramError(chat_calls(message_handler(Store, u, i, s, now),
                                               delivered)))

NewIssue ==
    \E chat \in Chats, u \in Users :
        /\ Cardinality(DOMAIN incidents) < MaxIncidents
        /\ Len(events) < MaxEvents
        /\ NewIssueUpdate(chat, u)

SelectDepartmentButton ==
    \E chat \in Chats, u \in Users, i \in IncidentIds, d \in DepartmentIds :
        Len(events) < MaxEvents /\ SelectDepartmentUpdate(chat, u, i, d)

ReassignDepartmentButton ==
    \E chat \in Chats, u \in Users, i \in IncidentIds, d \in DepartmentIds :
        Len(events) < MaxEvents /\ ReassignDepartmentUpdate(chat, u, i, d)

ClaimButton ==
    \E chat \in Chats, u \in Users, i \in IncidentIds :
        Len(events) < MaxEvents /\ ClaimUpdate(chat, u, i)

ReleaseButton ==
    \E chat \in Chats, u \in Users, i \in IncidentIds :
        Len(events) < MaxEvents /\ ReleaseUpdate(chat, u, i)

ResolveButton ==
    \E chat \in Chats, u \in Users, i \in IncidentIds :
        Len(events) < MaxEvents /\ ResolveUpdate(chat, u, i)

SummaryReply ==
    \E chat \in Chats, u \in Users, i \in IncidentIds, s \in Summaries :
        Len(events) < MaxEvents /\ SummaryReplyUpdate(chat, u, i, s)

HandlerNext ==
    \/ Tick
    \/ NewIssue
    \/ SelectDepartmentButton
    \/ ReassignDepartmentButton
    \/ ClaimButton
    \/ ReleaseButton
    \/ ResolveButton
    \/ SummaryReply

HandlerSpec == Init /\ [][HandlerNext]_vars

(***************************************************************************)
(* Two active groups.  The callback data of a button and the text of the   *)
(* message a summary replies to name the incident; the update names the    *)
(* chat it came from.  The two are separate inputs of the handlers.        *)
(***************************************************************************)
ActiveChats == {-42, -45}

GroupsNewIssue ==
    \E chat \in ActiveChats, u \in Users :
        /\ Cardinality(DOMAIN incidents) < MaxIncidents
        /\ Len(events) < MaxEvents
        /\ NewIssueUpdate(chat, u)

GroupsSelectDepartmentButton ==
    \E chat \in ActiveChats, u \in Users, i \in IncidentIds, d \in DepartmentIds :
        Len(events) < MaxEvents /\ SelectDepartmentUpdate(chat, u, i, d)

GroupsReassignDepartmentButton ==
    \E chat \in ActiveChats, u \in Users, i \in IncidentIds, d \in DepartmentIds :
        Len(events) < MaxEvents /\ ReassignDepartmentUpdate(chat, u, i, d)

GroupsClaimButton ==
    \E chat \in ActiveChats, u \in Users, i \in IncidentIds :
        Len(events) < MaxEvents /\ ClaimUpdate(chat, u, i)

GroupsReleaseButton ==
    \E chat \in ActiveChats, u \in Users, i \in IncidentIds :
        Len(events) < MaxEvents /\ ReleaseUpdate(chat, u, i)

GroupsResolveButton ==
    \E chat \in ActiveChats, u \in Users, i \in IncidentIds :
        Len(events) < MaxEvents /\ ResolveUpdate(chat, u, i)

GroupsSummaryReply ==
    \E chat \in ActiveChats, u \in Users, i \in IncidentIds, s \in Summaries :
        Len(events) < MaxEvents /\ SummaryReplyUpdate(chat, u, i, s)

GroupsNext ==
    \/ Tick
    \/ GroupsNewIssue
    \/ GroupsSelectDepartmentButton
    \/ GroupsReassignDepartmentButton
    \/ GroupsClaimButton
    \/ GroupsReleaseButton
    \/ GroupsResolveButton
    \/ GroupsSummaryReply

GroupsSpec == Init /\ [][GroupsNext]_vars

(***************************************************************************)
(* The reminder service (src/reminders.py).  IncidentBot._reminder_task    *)
(* runs check_and_send_reminders every REMINDER_CHECK_INTERVAL_MINUTES     *)
(* and, when the pass has returned and the UTC minute is 0,                *)
(* cleanup_old_reminders.  _check_unclaimed_reminders fetches its rows     *)
(* once and then visits them one by one; it awaits the chat in each        *)
(* visit, so lifecycle calls may run between two visits.                   *)
(***************************************************************************)

\* Config.SLA_UNCLAIMED_NUDGE_MINUTES and Config.SLA_SUMMARY_TIMEOUT_MINUTES
\* are read from the environment; the clock of the model counts minutes.
SLA_UNCLAIMED_NUDGE_MINUTES == 1
SLA_SUMMARY_TIMEOUT_MINUTES == 1

\* cleanup_old_reminders clears the map when it holds more entries than this.
\* The source compares with 1000; the model keeps the comparison and takes
\* the number in proportion to its two incidents.
UNCLAIMED_REMINDED_LIMIT == 1

MaxReminders == 3          \* reminders delivered in one behaviour
MaxSchedulerEvents == 4    \* rows of incident_events while the scheduler runs

\* the rows of a "SELECT * FROM incidents", in rowid (insertion) order
RECURSIVE InRowidOrder(_, _)
InRowidOrder(table, ids) ==
    IF ids = {} THEN <<>>
    ELSE LET first == CHOOSE id \in ids :
                          \A other \in ids : extract_suffix(id) <= extract_suffix(other)
         IN  <<table[first]>> \o InRowidOrder(table, ids \ {first})

\* get_unclaimed_incidents: Awaiting_Claim rows assigned at least
\* minutes_threshold minutes ago
get_unclaimed_incidents(db, minutes_threshold, t) ==
    SelectSeq(InRowidOrder(db.incidents, DOMAIN db.incidents),
              LAMBDA row : /\ row.status = "Awaiting_Claim"
                           /\ row.t_department_assigned /= NULL
                           /\ row.t_department_assigned <= t - minutes_threshold)

\* get_awaiting_summary_incidents: Awaiting_Summary rows whose summary was
\* requested at least minutes_threshold minutes ago
get_awaiting_summary_incidents(db, minutes_threshold, t) ==
    SelectSeq(InRowidOrder(db.incidents, DOMAIN db.incidents),
              LAMBDA row : /\ row.status = "Awaiting_Summary"
                           /\ row.t_resolution_requested /= NULL
                           /\ row.t_resolution_requested <= t - minutes_threshold)

\* get_company_membership: group is whether the groups table has the row
get_company_membership(group_id) ==
    IF group_id \in DOMAIN group_rows
    THEN [group |-> TRUE, is_active |-> group_rows[group_id].status = "active"]
    ELSE [group |-> FALSE, is_active |-> FALSE]

\* clear_reminder_for_incident: self._unclaimed_reminded.pop(incident_id, None)
clear_reminder_for_incident(reminded, incident_id) ==
    [id \in DOMAIN reminded \ {incident_id} |-> reminded[id]]

\* cleanup_old_reminders: clear the whole map once it is larger than the limit
cleanup_old_reminders(reminded) ==
    IF Cardinality(DOMAIN reminded) > UNCLAIMED_REMINDED_LIMIT THEN <<>> ELSE reminded

\* the loop of _check_summary_timeouts over the rows it fetched: each row is
\* auto-closed in a transaction of its own; a call that is rejected or that
\* raises is skipped.  closed collects the incidents whose call succeeded.
RECURSIVE AutoCloseEach(_, _, _, _)
AutoCloseEach(db, rows, t, closed) ==
    IF rows = <<>> THEN [db |-> db, closed |-> closed]
    ELSE LET r == get_connection(db, auto_close_incident(db, Head(rows).incident_id,
                                                        "timeout", "summary_timeout", t))
         IN  AutoCloseEach(r.db, Tail(rows), t,
                           IF r.outcome = "ok"
                           THEN closed \cup {Head(rows).incident_id} ELSE closed)

\* _check_unclaimed_reminders up to its loop: fetch the rows that are due
CheckUnclaimedReminders ==
    /\ unclaimed_incidents = <<>>
    /\ unclaimed_incidents' =
           get_unclaimed_incidents(Store, SLA_UNCLAIMED_NUDGE_MINUTES, now)
    /\ result' = [op |-> "_check_unclaimed_reminders", outcome |-> "ok", reason |-> "fetched"]
    /\ UNCHANGED <<incidents, claims, participants, sessions, events, now,
                   _unclaimed_reminded, sent_reminders, users, lock_vars>>

\* one turn of the loop "for incident in unclaimed_incidents": skip the row
\* that was reminded for this t_department_assigned or whose group is not
\* active; otherwise send the reminder and, when the chat took it, note it
RemindNext ==
    /\ unclaimed_incidents /= <<>>
    /\ Len(sent_reminders) < MaxReminders
    /\ \E delivered \in BOOLEAN :
          LET incident == Head(unclaimed_incidents)
              incident_id == incident.incident_id
              last_assigned == incident.t_department_assigned
              membership == get_company_membership(incident.group_id)
          IN  IF \/ last_assigned = NULL
                 \/ /\ incident_id \in DOMAIN _unclaimed_reminded
                    /\ _unclaimed_reminded[incident_id] = last_assigned
                 \/ ~membership.group
                 \/ ~membership.is_active
              THEN /\ result' = [op |-> "_check_unclaimed_reminders",
                                 outcome |-> "ok", reason |-> "skipped"]
                   /\ UNCHANGED <<_unclaimed_reminded, sent_reminders>>
              ELSE IF delivered
              THEN /\ sent_reminders' = Append(sent_reminders,
                                               [chat_id |-> incident.group_id,
                                                incident_id |-> incident_id,
                                                t_department_assigned |-> last_assigned])
                   /\ _unclaimed_reminded' =
                          (incident_id :> last_assigned) @@ _unclaimed_reminded
                   /\ result' = [op |-> "_check_unclaimed_reminders",
                                 outcome |-> "ok", reason |-> "sent"]
              ELSE /\ result' = [op |-> "_check_unclaimed_reminders",
                                 outcome |-> "error", reason |-> "TelegramError"]
                   /\ UNCHANGED <<_unclaimed_reminded, sent_reminders>>
    /\ unclaimed_incidents' = Tail(unclaimed_incidents)
    /\ UNCHANGED <<incidents, claims, participants, sessions, events, now, users, lock_vars>>

\* _check_summary_timeouts: auto-close every incident whose summary is
\* overdue; when the closing notice was delivered the incident's entry is
\* taken out of the reminder map
CheckSummaryTimeouts ==
    /\ unclaimed_incidents = <<>>
    /\ Len(events) < MaxSchedulerEvents
    /\ \E delivered \in BOOLEAN :
          LET awaiting_summaries ==
                  get_awaiting_summary_incidents(Store, SLA_SUMMARY_TIMEOUT_MINUTES, now)
              done == AutoCloseEach(Store, awaiting_summaries, now, {})
          IN  /\ incidents' = done.db.incidents
              /\ claims' = done.db.claims
              /\ participants' = done.db.participants
              /\ sessions' = done.db.sessions
              /\ events' = done.db.events
              /\ _unclaimed_reminded' =
                     IF delivered
                     THEN [id \in DOMAIN _unclaimed_reminded \ done.closed |->
                              _unclaimed_reminded[id]]
                     ELSE _unclaimed_reminded
              /\ result' = [op |-> "_check_summary_timeouts", outcome |-> "ok",
                            reason |-> IF done.closed = {} THEN "none" ELSE "closed"]
    /\ UNCHANGED <<now, unclaimed_incidents, sent_reminders, users, lock_vars>>

\* the hourly cleanup_old_reminders, between two passes
CleanupOldReminders ==
    /\ unclaimed_incidents = <<>>
    /\ _unclaimed_reminded' = cleanup_old_reminders(_unclaimed_reminded)
    /\ result' = [op |-> "cleanup_old_reminders", outcome |-> "ok", reason |-> ""]
    /\ UNCHANGED <<incidents, claims, participants, sessions, events, now,
                   unclaimed_incidents, sent_reminders, users, lock_vars>>

\* a lifecycle call made while the scheduler runs
LifecycleCall ==
    /\ Len(events) < MaxSchedulerEvents
    /\ \/ \E g \in Groups, u \in Users :
             Cardinality(DOMAIN incidents) < MaxIncidents /\ CreateCall(g, u)
       \/ \E i \in IncidentIds, d \in DepartmentIds, u \in Users : AssignCall(i, d, u)
       \/ \E i \in IncidentIds, u \in Users : ClaimCall(i, u)
       \/ \E i \in IncidentIds, u \in Users : ReleaseCall(i, u)
       \/ \E i \in IncidentIds, u \in Users : RequestResolutionCall(i, u)
       \/ \E i \in IncidentIds, u \in Users, s \in Summaries : ResolveCall(i, u, s)

SchedulerNext ==
    \/ Tick
    \/ LifecycleCall
    \/ CheckUnclaimedReminders
    \/ RemindNext
    \/ CheckSummaryTimeouts
    \/ CleanupOldReminders

SchedulerSpec == Init /\ [][SchedulerNext]_vars

(***************************************************************************)
(* The users table (src/database.py, "User Management").  A text is the    *)
(* tuple of its pieces and <<>> is the absent text; team_role is a text    *)
(* of the column's vocabulary or NullText.  A row keeps the columns the    *)
(* role logic reads or writes: first_name, last_name and language_code     *)
(* follow the rule of username, and the change history goes to metadata.   *)
(***************************************************************************)
NoText == <<>>
Roles == {"Driver", "Dispatcher", "OpsManager"}

\* what a caller may pass: no role, a role, or a text that the CHECK
\* constraint of the column refuses
RoleArgs == Roles \cup {NullText, "Boss"}
Usernames == {NoText, <<"a">>, <<"b">>}
GroupArgs == {NULL, -42, -43}
ManagerHandles == {<<"@", "a">>, <<"@", "m">>}

ROLE_PRIORITY == ("Driver" :> 1) @@ ("Dispatcher" :> 2) @@ ("OpsManager" :> 3)

\* BotHandlers._role_rank
_role_rank(role) ==
    IF role = NullText THEN 0
    ELSE IF role \in DOMAIN ROLE_PRIORITY THEN ROLE_PRIORITY[role] ELSE 0

\* f"User_{user_id}"
DefaultHandle(user_id) == <<"User_", IF user_id = 101 THEN "101" ELSE "102">>

\* track_user: the body of the transaction.  The INSERT of a user without a
\* row names twelve columns and has eleven placeholders, so sqlite3 refuses
\* the statement; the UPDATE of a row writes the columns that changed.
track_user(tbl, user_id, username, group_id, team_role) ==
    IF user_id \notin DOMAIN tbl
    THEN Raised(tbl, "OperationalError: 11 values for 12 columns")
    ELSE LET existing_row == tbl[user_id]
             telegram_handle == IF username /= NoText THEN <<"@">> \o username
                                ELSE IF existing_row.telegram_handle /= NoText
                                THEN existing_row.telegram_handle
                                ELSE DefaultHandle(user_id)
             group_connections ==
                 existing_row.group_connections
                     \cup (IF group_id /= NULL THEN {group_id} ELSE {})
             final_team_role ==
                 IF team_role /= NullText THEN team_role ELSE existing_row.team_role
         IN  IF final_team_role /= NullText /\ final_team_role \notin Roles
             THEN Raised(tbl, "IntegrityError: CHECK constraint failed: team_role")
             ELSE Returned([tbl EXCEPT ![user_id] =
                               [telegram_handle |-> telegram_handle,
                                username |-> IF username /= NoText
                                             THEN username ELSE existing_row.username,
                                team_role |-> final_team_role,
                                group_connections |-> group_connections]],
                           TRUE, "tracked")

\* upsert_user: INSERT ... ON CONFLICT(user_id) DO UPDATE; the role of the
\* call replaces the stored one
upsert_user(tbl, user_id, telegram_handle, team_role) ==
    LET username == IF telegram_handle /= NoText /\ Head(telegram_handle) = "@"
                    THEN Tail(telegram_handle) ELSE NoText
    IN  IF team_role /= NullText /\ team_role \notin Roles
        THEN Raised(tbl, "IntegrityError: CHECK constraint failed: team_role")
        ELSE IF user_id \in DOMAIN tbl
        THEN Returned([tbl EXCEPT ![user_id] =
                          [@ EXCEPT !.telegram_handle = telegram_handle,
                                    !.username = IF username /= NoText THEN username ELSE @,
                                    !.team_role = team_role]],
                      TRUE, "registered")
        ELSE Returned((user_id :> [telegram_handle |-> telegram_handle,
                                   username |-> username,
                                   team_role |-> team_role,
                                   group_connections |-> {}]) @@ tbl,
                      TRUE, "registered")

\* _ensure_user_role: store the desired role unless the user's role ranks
\* at least as high
_ensure_user_role(tbl, user_id, desired_role, handle_hint) ==
    LET desired_rank == _role_rank(desired_role)
        current_rank == IF user_id \in DOMAIN tbl
                        THEN _role_rank(tbl[user_id].team_role) ELSE 0
        handle == IF user_id \in DOMAIN tbl /\ tbl[user_id].telegram_handle /= NoText
                  THEN tbl[user_id].telegram_handle
                  ELSE IF handle_hint /= NoText THEN handle_hint
                  ELSE DefaultHandle(user_id)
    IN  IF desired_rank = 0 THEN Returned(tbl, TRUE, "no role")
        ELSE IF current_rank >= desired_rank THEN Returned(tbl, TRUE, "kept")
        ELSE get_connection(tbl, upsert_user(tbl, user_id, handle, desired_role))

\* the users table after a call, and what the caller saw
CommitUsers(op, r) ==
    /\ users' = r.db
    /\ result' = [op |-> op, outcome |-> r.outcome, reason |-> r.reason]
    /\ UNCHANGED <<incidents, claims, participants, sessions, events, now,
                   _unclaimed_reminded, unclaimed_incidents, sent_reminders, lock_vars>>

TrackUserCall(u, username, g, role) ==
    CommitUsers("track_user", get_connection(users, track_user(users, u, username, g, role)))

\* add_manager_command: the manager named by the platform admin becomes OpsManager
EnsureUserRoleCall(u, handle) ==
    CommitUsers("_ensure_user_role", _ensure_user_role(users, u, "OpsManager", handle))

TrackUser ==
    \E u \in Users, username \in Usernames, g \in GroupArgs, role \in RoleArgs :
        TrackUserCall(u, username, g, role)

EnsureUserRole == \E u \in Users, handle \in ManagerHandles : EnsureUserRoleCall(u, handle)

UserNext ==
    \/ TrackUser
    \/ EnsureUserRole

UserSpec == Init /\ [][UserNext]_vars

(***************************************************************************)
(* Callers on several threads.  Every mutating method of Database is       *)
(* "with self._lock: with self.get_connection() as conn: ..." and awaits   *)
(* nothing; the handler that called it talks to the chat after the method  *)
(* has returned or raised.  A call is taken in two steps, so that another  *)
(* thread may run between its reads and its commit: the thread acquires    *)
(* the lock and runs the body on its connection, then leaves the two with  *)
(* blocks (commit or rollback, release) and goes on to its chat call.      *)
(***************************************************************************)
MaxLockEvents == 3    \* rows of incident_events while the threads run

\* the mutating calls a thread may make
LockCalls ==
    [op : {"create_incident"}, incident_id : {<<>>}, user_id : Users,
     department_id : {NULL}]
      \cup [op : {"assign_incident_department"}, incident_id : IncidentIds,
            user_id : Users, department_id : {1, 2}]
      \cup [op : {"claim_incident", "release_claim", "request_resolution"},
            incident_id : IncidentIds, user_id : Users, department_id : {NULL}]

\* the body of the call's transaction, run on the store the connection sees
transaction_body(db, c, t) ==
    CASE c.op = "create_incident" ->
             create_incident(db, -42, c.user_id, GroupCompany(-42), t)
      [] c.op = "assign_incident_department" ->
             assign_incident_department(db, c.incident_id, c.department_id, c.user_id, t)
      [] c.op = "claim_incident" -> claim_incident(db, c.incident_id, c.user_id, t)
      [] c.op = "release_claim" -> release_claim(db, c.incident_id, c.user_id, t)
      [] c.op = "request_resolution" -> request_resolution(db, c.incident_id, c.user_id, t)

\* a lock that lets a thread in while another thread holds it
acquire_unlocked(holder) == TRUE

\* Lock.acquire(): the caller goes on only when no thread holds the lock
acquire(holder) == holder = NULL

\* "with self._lock:" entered, connection opened, body run up to its end
BeginTransaction(t) ==
    /\ pc[t] = "idle"
    /\ acquire(_lock)
    /\ Len(events) < MaxLockEvents
    /\ \E c \in LockCalls :
          /\ c.op = "create_incident" => Cardinality(DOMAIN incidents) < MaxIncidents
          /\ txn' = [txn EXCEPT ![t] = <<[call |-> c,
                                          body |-> transaction_body(Store, c, now)]>>]
    /\ _lock' = t
    /\ pc' = [pc EXCEPT ![t] = "in_transaction"]
    /\ UNCHANGED <<incidents, claims, participants, sessions, events, now, result,
                   _unclaimed_reminded, unclaimed_incidents, sent_reminders, users>>

\* both with blocks left: get_connection commits or rolls back and closes,
\* the lock is released, and the caller goes on to its chat call
EndTransaction(t) ==
    /\ pc[t] = "in_transaction"
    /\ LET r == get_connection(Store, txn[t][1].body)
       IN  /\ incidents' = r.db.incidents
           /\ claims' = r.db.claims
           /\ participants' = r.db.participants
           /\ sessions' = r.db.sessions
           /\ events' = r.db.events
           /\ result' = [op |-> txn[t][1].call.op, outcome |-> r.outcome,
                         reason |-> r.reason]
    /\ _lock' = NULL
    /\ txn' = [txn EXCEPT ![t] = <<>>]
    /\ pc' = [pc EXCEPT ![t] = "chat"]
    /\ UNCHANGED <<now, _unclaimed_reminded, unclaimed_incidents, sent_reminders, users>>

\* the handler's chat call has come back, delivered or refused
ChatCallReturns(t) ==
    /\ pc[t] = "chat"
    /\ pc' = [pc EXCEPT ![t] = "idle"]
    /\ UNCHANGED <<incidents, claims, participants, sessions, events, now, result,
                   _unclaimed_reminded, unclaimed_incidents, sent_reminders, users,
                   _lock, txn>>

Begin == \E t \in Threads : BeginTransaction(t)

End == \E t \in Threads : EndTransaction(t)

ChatReturn == \E t \in Threads : ChatCallReturns(t)

LockNext ==
    \/ Begin
    \/ End
    \/ ChatReturn

LockSpec == Init /\ [][LockNext]_vars

(***************************************************************************)
(* Vocabulary of the properties.                                           *)
(***************************************************************************)
ActiveClaimsOf(i) ==
    {k \in 1..Len(claims) : claims[k].incident_id = i /\ claims[k].is_active = 1}

ActiveClaimsBy(i, u) == {k \in ActiveClaimsOf(i) : claims[k].user_id = u}

\* the incident's event types in insertion order
EventTypesOf(i) ==
    LET own == SelectSeq(events, LAMBDA e : e.incident_id = i)
    IN  [k \in 1..Len(own) |-> own[k].event_type]

CountOf(word, type) == Cardinality({k \in 1..Len(word) : word[k] = type})

ClaimEventsBy(i, u) ==
    Cardinality({k \in 1..Len(events) : /\ events[k].incident_id = i
                                        /\ events[k].event_type = "claim"
                                        /\ events[k].actor_user_id = u})

StoreUnchanged == UNCHANGED <<incidents, claims, participants, sessions, events>>

IncidentStatus(i) == incidents[i].status

\* The preconditions of the lifecycle operations on the stored state.
AssignPre(i, d) ==
    /\ i \in DOMAIN incidents
    /\ IncidentStatus(i) \in {"Awaiting_Department", "Awaiting_Claim", "In_Progress"}
    /\ d \in DOMAIN departments
    /\ departments[d].company_id = incidents[i].company_id

ClaimPre(i, u) ==
    /\ i \in DOMAIN incidents
    /\ IncidentStatus(i) \in {"Awaiting_Claim", "In_Progress"}
    /\ incidents[i].department_id /= NULL
    /\ ActiveClaimsBy(i, u) = {}

ReleasePre(i, u) ==
    /\ i \in DOMAIN incidents
    /\ IncidentStatus(i) \in {"Awaiting_Claim", "In_Progress"}
    /\ ActiveClaimsBy(i, u) /= {}

RequestResolutionPre(i, u) ==
    /\ i \in DOMAIN incidents
    /\ IncidentStatus(i) = "In_Progress"
    /\ ActiveClaimsBy(i, u) /= {}

ResolvePre(i, u) ==
    /\ i \in DOMAIN incidents
    /\ IncidentStatus(i) = "Awaiting_Summary"
    /\ incidents[i].pending_resolution_by_user_id = u

AutoClosePre(i) ==
    /\ i \in DOMAIN incidents
    /\ IncidentStatus(i) = "Awaiting_Summary"

LifecycleEdges ==
    { <<"Awaiting_Department", "assign_incident_department", "Awaiting_Claim">>,
      <<"Awaiting_Claim", "claim_incident", "In_Progress">>,
      <<"In_Progress", "release_claim", "Awaiting_Claim">>,
      <<"In_Progress", "assign_incident_department", "Awaiting_Claim">>,
      <<"In_Progress", "request_resolution", "Awaiting_Summary">>,
      <<"Awaiting_Summary", "resolve_incident", "Resolved">>,
      <<"Awaiting_Summary", "auto_close_incident", "Closed">> }

ClaimRowsOf(i) == SelectSeq(claims, LAMBDA r : r.incident_id = i)

C6_RejectedIsNoOp ==
    [][/\ result'.outcome = "rejected" => StoreUnchanged
       /\ (result'.outcome /= "rejected" /\ result'.op = "assign_incident_department")
             => \A i \in IncidentIds, d \in DepartmentIds, u \in Users :
                    AssignCall(i, d, u) => AssignPre(i, d)
       /\ (result'.outcome /= "rejected" /\ result'.op = "claim_incident")
             => \A i \in IncidentIds, u \in Users : ClaimCall(i, u) => ClaimPre(i, u)
       /\ (result'.outcome /= "rejected" /\ result'.op = "release_claim")
             => \A i \in IncidentIds, u \in Users : ReleaseCall(i, u) => ReleasePre(i, u)
       /\ (result'.outcome /= "rejected" /\ result'.op = "request_resolution")
             => \A i \in IncidentIds, u \in Users :
                    RequestResolutionCall(i, u) => RequestResolutionPre(i, u)
       /\ (result'.outcome /= "rejected" /\ result'.op = "resolve_incident")
             => \A i \in IncidentIds, u \in Users, s \in Summaries :
                    ResolveCall(i, u, s) => ResolvePre(i, u)
       /\ (result'.outcome /= "rejected" /\ result'.op = "auto_close_incident")
             => \A i \in IncidentIds : AutoCloseCall(i) => AutoClosePre(i)]_vars

\* an assigned incident was offered a department of another company
C6_Witness ==
    /\ result.op = "assign_incident_department"
    /\ result.outcome = "rejected"
    /\ result.reason = "Department does not belong to this company."
    /\ \E i \in DOMAIN incidents : IncidentStatus(i) = "Awaiting_Claim"

(***************************************************************************)
(* C7.  A claim call by a user who holds no active claim on a claimable    *)
(* incident leaves exactly one active claim of that user and appends       *)
(* exactly one 'claim' event; a claim call by a user who already holds     *)
(* one is rejected and changes nothing; no call leaves more than one       *)
(* active claim per (incident, user).                                      *)
(***************************************************************************)
C7_ClaimOncePerUser ==
    [][result'.op = "claim_incident" =>
          \A i \in IncidentIds, u \in Users :
              ClaimCall(i, u) =>
                  /\ Cardinality(ActiveClaimsBy(i, u))' <= 1
                  /\ ActiveClaimsBy(i, u) /= {}
                        => (result'.outcome = "rejected" /\ StoreUnchanged)
                  /\ ClaimPre(i, u)
                        => /\ Cardinality(ActiveClaimsBy(i, u))' = 1
                           /\ ClaimEventsBy(i, u)' = ClaimEventsBy(i, u) + 1]_vars

(***************************************************************************)
(* C10.  The event types of every incident, in insertion order, are a      *)
(* word of  create (department_assigned (claim|release)*                   *)
(* (resolution_requested (resolve|auto_closed))?)*  or such a word cut     *)
(* after a resolution_requested that nothing follows yet.                  *)
(***************************************************************************)
GrammarStep(q, type) ==
    CASE q = "start" /\ type = "create" -> "created"
      [] q \in {"created", "assigned", "ended"} /\ type = "department_assigned" -> "assigned"
      [] q = "assigned" /\ type \in {"claim", "release"} -> "assigned"
      [] q = "assigned" /\ type = "resolution_requested" -> "requested"
      [] q = "requested" /\ type \in {"resolve", "auto_closed"} -> "ended"
      [] OTHER -> "reject"

RECURSIVE GrammarRun(_, _)
GrammarRun(q, word) ==
    IF word = <<>> THEN q ELSE GrammarRun(GrammarStep(q, Head(word)), Tail(word))

MaxSuffix(table) ==
    LET suffixes == {extract_suffix(id) : id \in DOMAIN table}
    IN  IF suffixes = {} THEN 0 ELSE Max(suffixes)

C13_DenseIncreasingIds ==
    [][/\ DOMAIN incidents \subseteq DOMAIN incidents'
       /\ Cardinality(DOMAIN incidents' \ DOMAIN incidents) <= 1
       /\ \A id \in DOMAIN incidents' \ DOMAIN incidents :
             /\ extract_suffix(id) = MaxSuffix(incidents) + 1
             /\ incidents'[id].incident_id = id
       /\ DOMAIN incidents' /= DOMAIN incidents
             => \A id1 \in DOMAIN incidents', id2 \in DOMAIN incidents' :
                    extract_suffix(id1) = extract_suffix(id2) => id1 = id2]_vars

\* two incidents were created one after the other
C13_Witness ==
    /\ DOMAIN incidents = {<<0, 0, 0, 1>>, <<0, 0, 0, 2>>}
    /\ result.op = "create_incident"

(***************************************************************************)
(* C14.  When assign_incident_department returns success on an incident    *)
(* that has active claims or an active department session, the committed   *)
(* state has: every claim that was active inactive with released_at = now, *)
(* its participant rollup 'transferred', every session that was active     *)
(* 'transferred', exactly one active session, a new one for the new        *)
(* department, the incident in the new department and Awaiting_Claim, and  *)
(* exactly one more event, a 'department_assigned' of this incident.       *)
(***************************************************************************)
ActiveSessionsOf(i) ==
    {k \in 1..Len(sessions) : sessions[k].incident_id = i /\ sessions[k].status = "active"}

RollupsOf(i, u, d) ==
    {k \in 1..Len(participants) : /\ participants[k].incident_id = i
                                  /\ participants[k].user_id = u
                                  /\ participants[k].department_id = d}

C14_TransferClosesPriorWork ==
    [][(result'.op = "assign_incident_department" /\ result'.outcome = "ok") =>
          \A i \in IncidentIds, d \in DepartmentIds, u \in Users :
              (/\ ActiveClaimsOf(i) /= {} \/ ActiveSessionsOf(i) /= {}
               /\ AssignCall(i, d, u))
              => /\ \A k \in ActiveClaimsOf(i) :
                        /\ claims'[k].is_active = 0
                        /\ claims'[k].released_at = now
                        /\ \A p \in RollupsOf(i, claims[k].user_id, claims[k].department_id) :
                               participants'[p].status = "transferred"
                 /\ \A k \in ActiveSessionsOf(i) : sessions'[k].status = "transferred"
                 /\ Cardinality(ActiveSessionsOf(i)') = 1
                 /\ \A k \in ActiveSessionsOf(i)' :
                        /\ k > Len(sessions)
                        /\ sessions'[k].department_id = d
                 /\ incidents'[i].department_id = d
                 /\ incidents'[i].status = "Awaiting_Claim"
                 /\ Len(events') = Len(events) + 1
                 /\ events'[Len(events')].event_type = "department_assigned"
                 /\ events'[Len(events')].incident_id = i]_vars

\* an incident whose first department session was closed by a transfer
C14_Witness ==
    /\ result.op = "assign_incident_department"
    /\ result.outcome = "ok"
    /\ \E i \in DOMAIN incidents :
          /\ \E k \in 1..Len(sessions) :
                sessions[k].incident_id = i /\ sessions[k].status = "transferred"
          /\ Cardinality(ActiveSessionsOf(i)) = 1

(***************************************************************************)
(* C15.  An incident is created without a department, and a step changes   *)
(* an incident's department_id only if it is a successful                  *)
(* assign_incident_department that appends exactly one event, a            *)
(* 'department_assigned' of that incident whose metadata holds the new     *)
(* department and the previous one.                                        *)
(***************************************************************************)
C15_DepartmentChangesOnlyByAssign ==
    [][/\ \A i \in DOMAIN incidents' \ DOMAIN incidents :
             incidents'[i].department_id = NULL
       /\ \A i \in DOMAIN incidents :
             incidents'[i].department_id /= incidents[i].department_id
                => /\ result'.op = "assign_incident_department"
                   /\ result'.outcome = "ok"
                   /\ Len(events') = Len(events) + 1
                   /\ LET e == events'[Len(events')]
                      IN  /\ e.event_type = "department_assigned"
                          /\ e.incident_id = i
                          /\ e.metadata.department_id = incidents'[i].department_id
                          /\ e.metadata.previous_department_id = incidents[i].department_id]_vars

\* a department change just committed: the incident had one, now has another
C15_Witness ==
    /\ result.op = "assign_incident_department"
    /\ result.outcome = "ok"
    /\ Len(events) > 0
    /\ LET e == events[Len(events)]
       IN  /\ e.event_type = "department_assigned"
           /\ e.metadata.previous_department_id /= NULL
           /\ incidents[e.incident_id].department_id = e.metadata.department_id

(***************************************************************************)
(* C16.  A handler step that changes the department of an incident that    *)
(* already has one is made by a user who is a member of the department     *)
(* the incident had before the step (the acting user is the actor of the   *)
(* 'department_assigned' event the step appends).                          *)
(***************************************************************************)
C16_TransferBySourceMember ==
    [][\A i \in DOMAIN incidents :
          (/\ incidents[i].department_id /= NULL
           /\ incidents'[i].department_id /= incidents[i].department_id)
          => is_user_in_department(incidents[i].department_id,
                                   events'[Len(events')].actor_user_id)]_vars

(***************************************************************************)
(* C17.  A handler step that takes an incident out of Awaiting_Department  *)
(* is made by the incident's reporter, and a select_department or          *)
(* reassign_department click on such an incident that is not rejected, or  *)
(* that changes anything, was the reporter's: any other user's click is    *)
(* rejected and changes nothing.                                           *)
(***************************************************************************)
C17_FirstAssignmentByReporter ==
    [][/\ \A i \in DOMAIN incidents :
             (/\ incidents[i].status = "Awaiting_Department"
              /\ incidents'[i].status /= "Awaiting_Department")
             => events'[Len(events')].actor_user_id = incidents[i].created_by_id
       /\ (/\ result'.op \in {"select_department", "reassign_department"}
           /\ result'.outcome /= "rejected" \/ ~StoreUnchanged)
             => \A chat \in Chats, u \in Users, i \in DOMAIN incidents, d \in DepartmentIds :
                    (/\ incidents[i].status = "Awaiting_Department"
                     /\ SelectDepartmentUpdate(chat, u, i, d)
                        \/ ReassignDepartmentUpdate(chat, u, i, d))
                    => u = incidents[i].created_by_id]_vars

\* the reporter's first department selection was just committed
C17_Witness ==
    /\ result.op = "select_department"
    /\ result.outcome = "ok"
    /\ LET e == events[Len(events)]
       IN  /\ e.event_type = "department_assigned"
           /\ e.metadata.status_before = "Awaiting_Department"
           /\ e.actor_user_id = incidents[e.incident_id].created_by_id

(***************************************************************************)
(* C18.  A claim click on an incident with a department that is not        *)
(* rejected, or that changes any of incidents, claims, participants,       *)
(* sessions and events, was made by a member of that department: a         *)
(* non-member's click is rejected and leaves the store as it was.          *)
(***************************************************************************)
C18_ClaimByNonMemberRejected ==
    [][(/\ result'.op = "claim"
        /\ result'.outcome /= "rejected" \/ ~StoreUnchanged)
          => \A chat \in Chats, u \in Users, i \in DOMAIN incidents :
                 (/\ incidents[i].department_id /= NULL
                  /\ ClaimUpdate(chat, u, i))
                 => is_user_in_department(incidents[i].department_id, u)]_vars

\* a non-member clicked claim on an incident waiting for its department
C18_Witness ==
    /\ result.op = "claim"
    /\ result.outcome = "rejected"
    /\ result.reason = "You are not a member of this department."
    /\ \E i \in DOMAIN incidents : IncidentStatus(i) = "Awaiting_Claim"

SessionsOf(i) == {k \in 1..Len(sessions) : sessions[k].incident_id = i}

C26_ErrorRollsBack ==
    /\ [][result'.outcome = "raised" => StoreUnchanged]_vars
    /\ [](\A i \in DOMAIN incidents :
             /\ CountOf(EventTypesOf(i), "create") = 1
             /\ Cardinality(SessionsOf(i)) = CountOf(EventTypesOf(i), "department_assigned")
             /\ (incidents[i].status = "Awaiting_Department")
                   <=> (CountOf(EventTypesOf(i), "department_assigned") = 0))

\* the event INSERT of a transfer failed after the sessions and the incident
\* row had been written, and the incident still shows its first assignment
C26_Witness ==
    /\ result.op = "assign_incident_department"
    /\ result.outcome = "raised"
    /\ result.reason = "OperationalError: INSERT INTO incident_events"
    /\ \E i \in DOMAIN incidents :
          /\ IncidentStatus(i) = "Awaiting_Claim"
          /\ Cardinality(SessionsOf(i)) = 1
          /\ Cardinality(ActiveSessionsOf(i)) = 1

(***************************************************************************)
(* C27.  When a handler answers with an error, because its lifecycle call  *)
(* raised or because the chat refused a message after the call had         *)
(* committed, the tables are exactly what the lifecycle call committed:    *)
(* the refused chat message neither undoes nor alters the transition.      *)
(***************************************************************************)
StoreBecomes(db) ==
    /\ incidents' = db.incidents
    /\ claims' = db.claims
    /\ participants' = db.participants
    /\ sessions' = db.sessions
    /\ events' = db.events

GroupIsActive(chat) ==
    \E g \in DOMAIN group_rows : g = chat /\ group_rows[g].status = "active"

IsPrefix(before, after) ==
    /\ Len(before) <= Len(after)
    /\ SubSeq(after, 1, Len(before)) = before

EventTypeOf ==
    [create_incident |-> "create",
     assign_incident_department |-> "department_assigned",
     claim_incident |-> "claim",
     release_claim |-> "release",
     request_resolution |-> "resolution_requested",
     resolve_incident |-> "resolve",
     auto_close_incident |-> "auto_closed"]

C32_TrackUserPreservesHigherRoles ==
    [][result'.op = "track_user" =>
          \A u \in DOMAIN users, username \in Usernames, g \in GroupArgs, role \in RoleArgs :
              TrackUserCall(u, username, g, role) =>
                  /\ _role_rank(users'[u].team_role) >= _role_rank(users[u].team_role)
                  /\ _role_rank(role) > _role_rank(users[u].team_role)
                        => users'[u].team_role = role
                  /\ role = NullText => users'[u].team_role = users[u].team_role]_vars

C38_OneActiveSession ==
    /\ [](\A i \in DOMAIN incidents :
             /\ Cardinality(ActiveSessionsOf(i)) <= 1
             /\ (ActiveSessionsOf(i) /= {})
                   <=> (IncidentStatus(i) \in {"Awaiting_Claim", "In_Progress",
                                               "Awaiting_Summary"})
             /\ \A k \in ActiveSessionsOf(i) :
                   sessions[k].department_id = incidents[i].department_id)
    /\ [][\A k \in 1..Len(sessions) :
             /\ k <= Len(sessions')
             /\ sessions[k].status /= "active" => sessions'[k].status = sessions[k].status]_vars

\* an incident was transferred: the session of the department it left is
\* 'transferred', the session of its department is the only active one
C38_Witness ==
    \E i \in DOMAIN incidents :
        /\ IncidentStatus(i) = "Awaiting_Claim"
        /\ Cardinality(SessionsOf(i)) = 2
        /\ Cardinality(ActiveSessionsOf(i)) = 1
        /\ \E k \in SessionsOf(i) :
              /\ sessions[k].status = "transferred"
              /\ sessions[k].department_id /= incidents[i].department_id
        /\ \A k \in ActiveSessionsOf(i) :
              sessions[k].department_id = incidents[i].department_id

(***************************************************************************)
(* C40.  A button click or a summary reply that arrives from chat G and    *)
(* changes the store changes only incidents of group G: every incident     *)
(* row it changes, and every event it appends, belongs to an incident      *)
(* whose group_id is G.                                                    *)
(***************************************************************************)
TouchesOnlyGroup(chat) ==
    /\ \A j \in DOMAIN incidents :
          incidents'[j] /= incidents[j] => incidents[j].group_id = chat
    /\ \A k \in (Len(events) + 1)..Len(events') :
          incidents'[events'[k].incident_id].group_id = chat

C40_OnlyOwnGroupIncidents ==
    [][~StoreUnchanged =>
          /\ result'.op = "select_department" =>
                \A chat \in ActiveChats, u \in Users, i \in IncidentIds, d \in DepartmentIds :
                    SelectDepartmentUpdate(chat, u, i, d) => TouchesOnlyGroup(chat)
          /\ result'.op = "reassign_department" =>
                \A chat \in ActiveChats, u \in Users, i \in IncidentIds, d \in DepartmentIds :
                    ReassignDepartmentUpdate(chat, u, i, d) => TouchesOnlyGroup(chat)
          /\ result'.op = "claim" =>
                \A chat \in ActiveChats, u \in Users, i \in IncidentIds :
                    ClaimUpdate(chat, u, i) => TouchesOnlyGroup(chat)
          /\ result'.op = "release" =>
                \A chat \in ActiveChats, u \in Users, i \in IncidentIds :
                    ReleaseUpdate(chat, u, i) => TouchesOnlyGroup(chat)
          /\ result'.op = "resolve" =>
                \A chat \in ActiveChats, u \in Users, i \in IncidentIds :
                    ResolveUpdate(chat, u, i) => TouchesOnlyGroup(chat)
          /\ result'.op = "summary_reply" =>
                \A chat \in ActiveChats, u \in Users, i \in IncidentIds, s \in Summaries :
                    SummaryReplyUpdate(chat, u, i, s) => TouchesOnlyGroup(chat)]_vars

====
